---- MODULE Spec2Model ----
(***************************************************************************)
(* Model of the admin sign-in flow of src/components/admin/AdminLogin.tsx: *)
(* the form submission (react-hook-form + zod resolver), the asynchronous  *)
(* handler onSubmit with its suspension points (await AdminApi.login,      *)
(* await import('@/services/api'), await import('@/services/socket')),     *)
(* the delayed socketService.connect timer, and the shared state it        *)
(* touches (localStorage, the window event channel, the socket service).   *)
(*                                                                         *)
(* JavaScript runs each stretch of code between two awaits atomically, so  *)
(* there is one action per such stretch.  Every statement of onSubmit is   *)
(* inside try/catch/finally; a throw inside the try block is modelled by   *)
(* the operator Catch (lines 131-140).                                     *)
(***************************************************************************)
EXTENDS Integers, Sequences, FiniteSets, TLC

(***************************************************************************)
(* Bounds of the model.                                                    *)
(***************************************************************************)
\* number of submissions that reach onSubmit in one behaviour
MaxSubmits == 2
\* number of listeners registered for 'adminLoginSuccess'
NumListeners == 2

(***************************************************************************)
(* Values.                                                                 *)
(***************************************************************************)
\* JavaScript undefined/null for a string-valued field
Undefined == "<undefined>"
\* JavaScript undefined/null for an object-valued field
Null == [id |-> 0, role |-> "<undefined>"]

\* truthiness of a string-valued expression (the operands of && and ||)
Truthy(s) == s # Undefined /\ s # ""
\* a presence test that takes an absent record for a record
TruthyObjAlways(o) == TRUE

\* truthiness of an object-valued expression
TruthyObj(o) == o # Null

AdminP1 == [id |-> 1, role |-> "admin"]
AdminP2 == [id |-> 2, role |-> "admin"]
StdP == [id |-> 3, role |-> "standard"]
Principals == {AdminP1, AdminP2, StdP}

\* tokens a response may carry: absent, empty, or one of two opaque strings
Tokens == {Undefined, "", "T1", "T2"}
\* error strings a response may carry: absent, empty, or a server message
ServerErrors == {Undefined, "", "invalid credentials"}

\* the shape {success, data?: {token, user?, admin?}, error?} read at lines 58-78
Responses ==
    { r \in [success : BOOLEAN, hasData : BOOLEAN, token : Tokens,
             admin : {Null, AdminP1, StdP}, user : {Null, AdminP2, StdP},
             error : ServerErrors] :
        ~r.hasData => (r.token = Undefined /\ r.admin = Null /\ r.user = Null) }

\* what a rejected AdminApi.login promise carries: an Error with a message,
\* or a value that is not an Error
Rejections == {[isError |-> TRUE, message |-> "Network Error"],
               [isError |-> FALSE, message |-> "timeout"]}

\* what a throwing store write throws: an Error with a message (the
\* DOMException of a full or disabled localStorage), or a value that is not an
\* Error
Thrown == {[isError |-> TRUE, message |-> "QuotaExceededError"],
           [isError |-> FALSE, message |-> "storage unavailable"]}

\* form inputs, as sequences of characters
Emails == { <<"a", "@", "b", ".", "c">>, <<"a", "b", ".", "c">>, <<"a", "@", "b">> }
Passwords == { <<"s", "h", "o", "r", "t">>, <<"s", "e", "c", "r", "e", "t">>,
               <<"s", "e", "c", "r", "e", "t", "1">> }

AccessDeniedMsg == "Access denied. Admin privileges required."
MissingUserMsg == "Invalid response: missing user data"
DefaultRejectMsg == "Invalid admin credentials or insufficient permissions"
UnexpectedMsg == "An unexpected error occurred."
\* messages of the faults thrown by collaborators
SocketMsg == "socket failure"
ChunkMsg == "Failed to fetch dynamically imported module"
CallbackMsg == "onLoginSuccess failed"
ListenerMsg == "listener failed"

VARIABLES
    isLoading,        \* useState(false), line 36
    formErrors,       \* fields the resolver flagged (form state)
    submits,          \* number of onSubmit invocations so far
    loginCalls,       \* number of AdminApi.login invocations so far
    runs,             \* per onSubmit invocation: position, locals, effects
    localStorage,     \* window.localStorage: set of <<key, value>>
    lastEvent,        \* detail of the last 'adminLoginSuccess' event
    listenerView,     \* localStorage as a listener of that event found it
    console,          \* console output that carries submitted form values
    socketConnected,  \* socketService.isSocketConnected()
    timers            \* runs whose setTimeout(connect, 100) is pending

vars == <<isLoading, formErrors, submits, loginCalls, runs, localStorage,
          lastEvent, listenerView, console, socketConnected, timers>>

Listeners == 1..NumListeners

RunIds == 1..MaxSubmits

NoEvent == [user |-> Null, token |-> Undefined]

\* the response local before AdminApi.login has resolved
NoResponse == [success |-> FALSE, hasData |-> FALSE, token |-> Undefined,
               admin |-> Null, user |-> Null, error |-> Undefined]

\* an onSubmit invocation that has not started.  pc is the await the
\* invocation is suspended at; response and adminUser are its locals; trace,
\* outcome, message and fault record what it did, delivered the listeners
\* its event was handed to, listenerThrew whether one of them threw, and
\* storeChanged whether it left localStorage different from what it found
\* (observation only).
NoRun == [pc |-> "none", response |-> NoResponse, adminUser |-> Null,
          trace |-> <<>>, outcome |-> "none", message |-> Undefined,
          fault |-> "none", delivered |-> {}, listenerThrew |-> FALSE,
          storeChanged |-> FALSE]

(***************************************************************************)
(* adminLoginSchema, lines 23-26.                                          *)
(***************************************************************************)
\* positions of character c in sequence s
Positions(s, c) == { i \in 1..Len(s) : s[i] = c }

\* z.string().email(): one "@", a non-empty local part, and a domain with a
\* "." that has a non-empty label on both sides
IsEmail(e) ==
    /\ Cardinality(Positions(e, "@")) = 1
    /\ LET at == CHOOSE i \in Positions(e, "@") : TRUE
       IN /\ at > 1
          /\ \E d \in Positions(e, ".") : d > at + 1 /\ d < Len(e)

MinPasswordLen == 6

\* a length check that is off by one
IsPasswordMin5(p) == Len(p) >= MinPasswordLen - 1

\* z.string().min(6)
IsPassword(p) == Len(p) >= MinPasswordLen

\* the fields the zod resolver reports as invalid
adminLoginSchema(email, password) ==
    (IF IsEmail(email) THEN {} ELSE {"email"})
        \cup (IF IsPassword(password) THEN {} ELSE {"password"})

(***************************************************************************)
(* localStorage and the serialisation of the principal.                    *)
(***************************************************************************)
TokenKey == "admin_token"
UserKey == "admin_user"

\* a store that keeps the earlier pairs of the key
SetItemKeeping(store, key, value) == store \cup { <<key, value>> }

\* Storage.setItem: the pair for the key replaces any pair with that key
SetItem(store, key, value) ==
    { kv \in store : kv[1] # key } \cup { <<key, value>> }

\* Storage.getItem, as the set of values held under the key
GetItems(store, key) == { kv[2] : kv \in { e \in store : e[1] = key } }

\* JSON.stringify of a principal record, line 103
JSONStringify(p) ==
    "{\"id\":" \o ToString(p.id) \o ",\"role\":\"" \o p.role \o "\"}"

\* JSON.parse of a stored principal (the readers of 'admin_user')
JSONParse(s) ==
    IF \E p \in Principals : JSONStringify(p) = s
    THEN CHOOSE p \in Principals : JSONStringify(p) = s
    ELSE Null

\* setAdminToken of '@/services/api', line 102
setAdminToken(store, token) == SetItem(store, TokenKey, token)

(***************************************************************************)
(* Pieces of onSubmit.                                                     *)
(***************************************************************************)
\* line 51: console.log(..., { email: values.email, hasPassword: !!values.password })
LoginAttemptLog(email, password) ==
    [email |-> email, hasPassword |-> (Len(password) > 0)]

\* line 66: response.success && response.data?.token
HasToken(r) == r.success /\ r.hasData /\ Truthy(r.token)

\* a selection that prefers the user record
SelectUserFirst(r) == IF TruthyObj(r.user) THEN r.user ELSE r.admin

\* line 78: response.data.admin || response.data.user
SelectAdminUser(r) == IF TruthyObj(r.admin) THEN r.admin ELSE r.user

\* a role gate that admits every role
HasAnyRole(u) == TRUE

\* line 91: the role gate (adminUser.role !== 'admin' throws)
HasAdminRole(u) == u.role = "admin"

\* a rejection that always reports the default message
RejectMessageDefault(r) == DefaultRejectMsg

\* line 129: response.error || '<default>'
RejectMessage(r) == IF Truthy(r.error) THEN r.error ELSE DefaultRejectMsg

\* line 136: error instanceof Error ? error.message : '<default>'
ErrorDescription(e) == IF e.isError THEN e.message ELSE UnexpectedMsg

\* a submit button that is never disabled
ButtonAlwaysEnabled == TRUE

\* line 210: the submit button is enabled
ButtonEnabled == ~isLoading

\* the event dispatched before the two writes
PublishThenPersist(store, token, adminUser) ==
    LET withToken == setAdminToken(store, token)
        withUser == SetItem(withToken, UserKey, JSONStringify(adminUser))
    IN [store |-> withUser,
        event |-> [user |-> adminUser, token |-> token],
        view |-> store,
        ops |-> <<"dispatchEvent", "setAdminToken", "setItem">>]

\* the event dispatched between the two writes
PublishBetweenWrites(store, token, adminUser) ==
    LET withToken == setAdminToken(store, token)
        withUser == SetItem(withToken, UserKey, JSONStringify(adminUser))
    IN [store |-> withUser,
        event |-> [user |-> adminUser, token |-> token],
        view |-> withToken,
        ops |-> <<"setAdminToken", "dispatchEvent", "setItem">>]

\* lines 102-111 in program order: the token is stored, then the principal,
\* then the event is dispatched; its listeners run inside dispatchEvent and so
\* find the store as the two writes left it
PersistAndPublish(store, token, adminUser) ==
    LET withToken == setAdminToken(store, token)
        withUser == SetItem(withToken, UserKey, JSONStringify(adminUser))
    IN [store |-> withUser,
        event |-> [user |-> adminUser, token |-> token],
        view |-> withUser,
        ops |-> <<"setAdminToken", "setItem", "dispatchEvent">>]

\* a dispatch that stops at the first listener that throws and rethrows
DispatchEventPropagating(throwing) ==
    IF throwing = {}
    THEN [delivered |-> Listeners, reported |-> {}, threw |-> FALSE]
    ELSE LET first == CHOOSE l \in throwing : \A m \in throwing : l <= m
         IN [delivered |-> 1..first, reported |-> {}, threw |-> TRUE]

\* line 106: window.dispatchEvent calls every listener in registration order;
\* the exception of a listener is reported to the window, the dispatch goes
\* on with the next listener and returns normally.  throwing is the set of
\* listeners that throw.
DispatchEvent(throwing) ==
    [delivered |-> Listeners, reported |-> throwing, threw |-> FALSE]

\* socketService.disconnect() of '@/services/socket': the connection is closed
Disconnect(connected) == FALSE

\* socketService.connect() of '@/services/socket': a connection is opened when
\* the attempt gets established
Connect(connected, established) == connected \/ established

\* a reconnection that opens the new connection at once, before closing the
\* old one, instead of handing the connect to the timer
ReestablishConnectFirst(connected) ==
    [ops |-> IF connected THEN <<"connect", "disconnect">> ELSE <<"connect">>,
     connected |-> IF connected THEN Disconnect(connected) ELSE TRUE,
     scheduled |-> FALSE]

\* a reconnection whose timer is cleared before it fires
ReestablishCancelled(connected) ==
    [ops |-> IF connected THEN <<"disconnect", "setTimeout">> ELSE <<"setTimeout">>,
     connected |-> IF connected THEN Disconnect(connected) ELSE connected,
     scheduled |-> FALSE]

\* lines 115-120 in program order: a live socket is disconnected, then the
\* connect is handed to a 100 ms timer
Reestablish(connected) ==
    [ops |-> IF connected THEN <<"disconnect", "setTimeout">> ELSE <<"setTimeout">>,
     connected |-> IF connected THEN Disconnect(connected) ELSE connected,
     scheduled |-> TRUE]

\* lines 131-140: the catch block reports the error in a destructive toast
\* and the finally block clears isLoading; the invocation returns normally
Catch(run, description, fault) ==
    [run EXCEPT !.pc = "done",
                !.outcome = "failed",
                !.message = description,
                !.fault = fault,
                !.trace = Append(@, "toastFailed")]

\* A returned invocation of onSubmit leaves no locals behind; of what it did
\* only its calls of the socket service stay on record, for the timer that
\* may still be pending.
SocketCall(op) == op \in {"disconnect", "connect"}
Archive(run) ==
    IF run.pc = "done"
    THEN [NoRun EXCEPT !.pc = "done", !.trace = SelectSeq(run.trace, SocketCall)]
    ELSE run

(***************************************************************************)
(* Initial state: the component has just mounted on a client that holds no *)
(* admin session; the application may or may not have a live socket.       *)
(***************************************************************************)
Init ==
    /\ isLoading = FALSE
    /\ formErrors = {}
    /\ submits = 0
    /\ loginCalls = 0
    /\ runs = [i \in RunIds |-> NoRun]
    /\ localStorage = {}
    /\ lastEvent = NoEvent
    /\ listenerView = {}
    /\ console = {}
    /\ socketConnected \in BOOLEAN
    /\ timers = {}

(***************************************************************************)
(* form.handleSubmit(onSubmit), line 158, up to the first await of         *)
(* onSubmit (lines 47-56).  The resolver validates the values; onSubmit is *)
(* called only when no field is flagged.                                   *)
(***************************************************************************)
Submit(email, password) ==
    /\ ButtonEnabled
    /\ submits < MaxSubmits
    /\ LET errors == adminLoginSchema(email, password)
           id == submits + 1
       IN IF errors = {}
          THEN /\ formErrors' = {}
               /\ isLoading' = TRUE
               /\ submits' = id
               /\ loginCalls' = loginCalls + 1
               /\ console' = console \cup {LoginAttemptLog(email, password)}
               /\ runs' = [i \in RunIds |->
                             IF i = id
                             THEN [NoRun EXCEPT !.pc = "awaitLogin"]
                             ELSE Archive(runs[i])]
          ELSE /\ formErrors' = errors
               /\ UNCHANGED <<isLoading, submits, loginCalls, runs, console>>
    /\ UNCHANGED <<localStorage, lastEvent, listenerView, socketConnected,
                   timers>>

(***************************************************************************)
(* AdminApi.login resolved: lines 58-101, up to await import('.../api').   *)
(***************************************************************************)
LoginResolves(id, r) ==
    /\ runs[id].pc = "awaitLogin"
    /\ LET run == [runs[id] EXCEPT !.response = r]
           adminUser == SelectAdminUser(r)
       IN IF HasToken(r)
          THEN IF ~TruthyObj(adminUser)
               THEN /\ runs' = [runs EXCEPT ![id] = Catch(run, MissingUserMsg, "none")]
                    /\ isLoading' = FALSE
               ELSE IF ~HasAdminRole(adminUser)
               THEN /\ runs' = [runs EXCEPT ![id] =
                                  Catch([run EXCEPT !.adminUser = adminUser],
                                        AccessDeniedMsg, "none")]
                    /\ isLoading' = FALSE
               ELSE /\ runs' = [runs EXCEPT ![id] =
                                  [run EXCEPT !.adminUser = adminUser,
                                              !.pc = "awaitImportApi"]]
                    /\ UNCHANGED isLoading
          ELSE /\ runs' = [runs EXCEPT ![id] = Catch(run, RejectMessage(r), "none")]
               /\ isLoading' = FALSE
    /\ UNCHANGED <<formErrors, submits, loginCalls, localStorage, lastEvent,
                   listenerView, console, socketConnected, timers>>

(***************************************************************************)
(* AdminApi.login rejected: the await at line 53 throws into the catch.    *)
(***************************************************************************)
LoginRejects(id, e) ==
    /\ runs[id].pc = "awaitLogin"
    /\ runs' = [runs EXCEPT ![id] = Catch(runs[id], ErrorDescription(e), "login")]
    /\ isLoading' = FALSE
    /\ UNCHANGED <<formErrors, submits, loginCalls, localStorage, lastEvent,
                   listenerView, console, socketConnected, timers>>

(***************************************************************************)
(* import('@/services/api') resolved: lines 102-114, up to                  *)
(* await import('@/services/socket').  The module is already loaded by the *)
(* static import of line 7, so this import does not reject.  fault names   *)
(* the storage call that throws, if any: localStorage.setItem throws when  *)
(* the quota is exceeded or storage is disabled, and e is what it throws.   *)
(* throwing is the set of listeners of the event that throw.               *)
(***************************************************************************)
ImportApiResolves(id, fault, e, throwing) ==
    /\ runs[id].pc = "awaitImportApi"
    /\ fault = "none" => e = CHOOSE t \in Thrown : TRUE
    /\ fault # "none" => throwing = {}
    /\ LET run == runs[id]
           token == run.response.token
           withToken == setAdminToken(localStorage, token)
           done == PersistAndPublish(localStorage, token, run.adminUser)
           dispatch == DispatchEvent(throwing)
           published == [run EXCEPT !.trace = @ \o done.ops,
                                    !.delivered = dispatch.delivered,
                                    !.listenerThrew = (dispatch.reported # {}),
                                    !.storeChanged = (done.store # localStorage)]
       IN CASE fault = "setAdminToken" ->
                 /\ runs' = [runs EXCEPT ![id] =
                       Catch(run, ErrorDescription(e), fault)]
                 /\ isLoading' = FALSE
                 /\ UNCHANGED <<localStorage, lastEvent, listenerView>>
            [] fault = "setItem" ->
                 /\ localStorage' = withToken
                 /\ runs' = [runs EXCEPT ![id] =
                       Catch([run EXCEPT !.trace = Append(@, "setAdminToken"),
                                         !.storeChanged = (withToken # localStorage)],
                             ErrorDescription(e), fault)]
                 /\ isLoading' = FALSE
                 /\ UNCHANGED <<lastEvent, listenerView>>
            [] OTHER ->
                 /\ localStorage' = done.store
                 /\ lastEvent' = done.event
                 /\ listenerView' = done.view
                 /\ IF dispatch.threw
                    THEN /\ runs' = [runs EXCEPT ![id] =
                               Catch(published, ListenerMsg, "dispatchEvent")]
                         /\ isLoading' = FALSE
                    ELSE /\ runs' = [runs EXCEPT ![id] =
                               [published EXCEPT !.pc = "awaitImportSocket"]]
                         /\ UNCHANGED isLoading
    /\ UNCHANGED <<formErrors, submits, loginCalls, console, socketConnected,
                   timers>>

(***************************************************************************)
(* import('@/services/socket') resolved: lines 115-127 and the finally.    *)
(* fault names the call that throws, if any: a call of the socket service, *)
(* or the caller's onLoginSuccess, which line 127 calls inside the try.    *)
(***************************************************************************)
ImportSocketResolves(id, fault, stillConnected) ==
    /\ runs[id].pc = "awaitImportSocket"
    /\ fault = "disconnect" => socketConnected
    /\ fault # "disconnect" => ~stillConnected
    /\ LET run == runs[id]
           afterCheck == IF socketConnected
                         THEN [run EXCEPT !.trace = Append(@, "disconnect")]
                         ELSE run
           re == Reestablish(socketConnected)
           granted == [run EXCEPT !.trace = @ \o re.ops
                                   \o <<"toastGranted", "onLoginSuccess">>]
       IN CASE fault = "isSocketConnected" ->
                 /\ runs' = [runs EXCEPT ![id] = Catch(run, SocketMsg, fault)]
                 /\ UNCHANGED <<socketConnected, timers>>
            [] fault = "disconnect" ->
                 /\ runs' = [runs EXCEPT ![id] = Catch(afterCheck, SocketMsg, fault)]
                 /\ socketConnected' = stillConnected
                 /\ UNCHANGED timers
            [] fault = "onLoginSuccess" ->
                 /\ socketConnected' = re.connected
                 /\ timers' = IF re.scheduled THEN timers \cup {id} ELSE timers
                 /\ runs' = [runs EXCEPT ![id] = Catch(granted, CallbackMsg, fault)]
            [] OTHER ->
                 /\ socketConnected' = re.connected
                 /\ timers' = IF re.scheduled THEN timers \cup {id} ELSE timers
                 /\ runs' = [runs EXCEPT ![id] =
                       [granted EXCEPT !.pc = "done", !.outcome = "succeeded"]]
    /\ isLoading' = FALSE
    /\ UNCHANGED <<formErrors, submits, loginCalls, localStorage, lastEvent,
                   listenerView, console>>

(***************************************************************************)
(* import('@/services/socket') rejected (the chunk failed to load): the    *)
(* await at line 114 throws into the catch.                                *)
(***************************************************************************)
ImportSocketRejects(id) ==
    /\ runs[id].pc = "awaitImportSocket"
    /\ runs' = [runs EXCEPT ![id] = Catch(runs[id], ChunkMsg, "importSocket")]
    /\ isLoading' = FALSE
    /\ UNCHANGED <<formErrors, submits, loginCalls, localStorage, lastEvent,
                   listenerView, console, socketConnected, timers>>

(***************************************************************************)
(* The timer of lines 118-120 fires: socketService.connect().  The timer   *)
(* callback runs outside onSubmit; connected tells whether the connection  *)
(* got established.                                                        *)
(***************************************************************************)
TimerFires(id, connected) ==
    /\ id \in timers
    /\ timers' = timers \ {id}
    /\ socketConnected' = Connect(socketConnected, connected)
    /\ runs' = [runs EXCEPT ![id].trace = Append(@, "connect")]
    /\ UNCHANGED <<isLoading, formErrors, submits, loginCalls, localStorage,
                   lastEvent, listenerView, console>>

Next ==
    \/ \E e \in Emails, p \in Passwords : Submit(e, p)
    \/ \E id \in RunIds, r \in Responses : LoginResolves(id, r)
    \/ \E id \in RunIds, e \in Rejections : LoginRejects(id, e)
    \/ \E id \in RunIds, f \in {"none", "setAdminToken", "setItem"},
          e \in Thrown, throwing \in SUBSET Listeners :
          ImportApiResolves(id, f, e, throwing)
    \/ \E id \in RunIds,
          f \in {"none", "isSocketConnected", "disconnect", "onLoginSuccess"},
          c \in BOOLEAN : ImportSocketResolves(id, f, c)
    \/ \E id \in RunIds : ImportSocketRejects(id)
    \/ \E id \in RunIds, c \in BOOLEAN : TimerFires(id, c)

Spec == Init /\ [][Next]_vars

\* The event loop runs every timer that was set (lines 118-120 never clear
\* the timer).
Fairness ==
    \A id \in RunIds : WF_vars(\E c \in BOOLEAN : TimerFires(id, c))

FairSpec == Spec /\ Fairness

(***************************************************************************)
(* Properties.                                                             *)
(***************************************************************************)
Has(t, op) == \E i \in DOMAIN t : t[i] = op
Count(t, op) == Cardinality({ i \in DOMAIN t : t[i] = op })
\* every occurrence of a comes before every occurrence of b
Precedes(t, a, b) == \A i, j \in DOMAIN t : (t[i] = a /\ t[j] = b) => i < j

\* the principals readable from the admin session store
StoredPrincipals == { JSONParse(v) : v \in GetItems(localStorage, UserKey) }

\* the invocations of onSubmit suspended at an await
InFlight ==
    Cardinality({ id \in RunIds :
        runs[id].pc \in {"awaitLogin", "awaitImportApi", "awaitImportSocket"} })

\* the step in which the AdminApi.login call of invocation id resolves
Resolved(id) ==
    /\ runs[id].pc = "awaitLogin"
    /\ runs'[id].pc # "awaitLogin"
    /\ runs'[id].fault # "login"

\* the response was successful, carried a token and selected an admin
AdminResponse(r) ==
    /\ r.success /\ r.hasData /\ r.token \notin {Undefined, ""}
    /\ LET u == IF r.admin # Null THEN r.admin ELSE r.user
       IN u # Null /\ u.role = "admin"

\* the response was successful, carried a token and selected a non-admin
NonAdminResponse(r) ==
    /\ r.success /\ r.hasData /\ r.token \notin {Undefined, ""}
    /\ LET u == IF r.admin # Null THEN r.admin ELSE r.user
       IN u # Null /\ u.role # "admin"

\* C1: a submission whose successful response selects a principal with a
\* role other than 'admin' never stores the token or the principal, never
\* dispatches 'adminLoginSuccess' and never calls onLoginSuccess; the
\* principal held in the admin session store, and the one carried by the
\* event, always has role 'admin'.
C1_NonAdminNeverAdmitted ==
    /\ \A id \in RunIds :
          NonAdminResponse(runs[id].response) =>
              /\ ~Has(runs[id].trace, "setAdminToken")
              /\ ~Has(runs[id].trace, "setItem")
              /\ ~Has(runs[id].trace, "dispatchEvent")
              /\ ~Has(runs[id].trace, "onLoginSuccess")
    /\ \A u \in StoredPrincipals : u.role = "admin"
    /\ lastEvent # NoEvent => lastEvent.user.role = "admin"

\* a non-admin response was denied while the store holds an admin session
C1_Witness ==
    \E id \in RunIds :
        /\ runs[id].pc = "done"
        /\ NonAdminResponse(runs[id].response)
        /\ runs[id].message = AccessDeniedMsg
        /\ StoredPrincipals # {}

\* C2: every submission whose response is successful with a token and an
\* admin-role principal (and whose two store writes did not throw) persists
\* the session exactly once, dispatches 'adminLoginSuccess' exactly once and
\* calls onLoginSuccess exactly once, after the persist and the dispatch.
C2_AdmittedExactlyOnce ==
    \A id \in RunIds :
        ( /\ runs[id].pc = "done"
          /\ AdminResponse(runs[id].response)
          /\ runs[id].fault \notin {"setAdminToken", "setItem"} ) =>
            /\ Count(runs[id].trace, "setAdminToken") = 1
            /\ Count(runs[id].trace, "setItem") = 1
            /\ Count(runs[id].trace, "dispatchEvent") = 1
            /\ Count(runs[id].trace, "onLoginSuccess") = 1
            /\ Precedes(runs[id].trace, "setItem", "onLoginSuccess")
            /\ Precedes(runs[id].trace, "dispatchEvent", "onLoginSuccess")

\* C3: within one submission the side effects come in the order store the
\* token, store the principal, dispatch the event, disconnect the socket (if
\* connected), schedule the connect, call onLoginSuccess; none happens
\* without the earlier ones, and the listeners of the event find both writes
\* in the store.
C3_SideEffectOrder ==
    /\ \A id \in RunIds :
          LET t == runs[id].trace
          IN /\ Precedes(t, "setAdminToken", "setItem")
             /\ Precedes(t, "setItem", "dispatchEvent")
             /\ Precedes(t, "dispatchEvent", "disconnect")
             /\ Precedes(t, "dispatchEvent", "setTimeout")
             /\ Precedes(t, "disconnect", "setTimeout")
             /\ Precedes(t, "setTimeout", "onLoginSuccess")
             /\ Has(t, "dispatchEvent") => (Has(t, "setAdminToken") /\ Has(t, "setItem"))
             /\ Has(t, "setTimeout") => Has(t, "dispatchEvent")
             /\ Has(t, "onLoginSuccess") => Has(t, "setTimeout")
    /\ lastEvent # NoEvent =>
          /\ <<TokenKey, lastEvent.token>> \in listenerView
          /\ <<UserKey, JSONStringify(lastEvent.user)>> \in listenerView

\* an admission that went through every step, the disconnect included
C3_Witness ==
    \E id \in RunIds :
        runs[id].trace = <<"setAdminToken", "setItem", "dispatchEvent",
                           "disconnect", "setTimeout", "toastGranted",
                           "onLoginSuccess">>

\* C4: while a submission is in flight (isLoading) no further AdminApi.login
\* call is issued, and at most one invocation of onSubmit is in flight.
C4_NoReentrantSubmit ==
    [][ (isLoading => loginCalls' = loginCalls) /\ InFlight' <= 1 ]_vars

\* a second submission is in flight, started after the first had returned
C4_Witness ==
    /\ isLoading
    /\ submits = 2
    /\ loginCalls = 2
    /\ runs[1].pc = "done"
    /\ runs[2].pc = "awaitLogin"

\* C5: for every admission, a socketService.disconnect call comes before the
\* socketService.connect call of that admission's timer.
C5_DisconnectBeforeConnect ==
    \A id \in RunIds : Precedes(runs[id].trace, "disconnect", "connect")

\* an admission that disconnected and whose timer has fired
C5_Witness ==
    \E id \in RunIds :
        Has(runs[id].trace, "disconnect") /\ Has(runs[id].trace, "connect")

\* C6: a submission whose identifier is not e-mail shaped or whose secret is
\* shorter than 6 characters issues no AdminApi.login call and changes no
\* session state.
C6_InvalidNeverReachesLogin ==
    [][ \A e \in Emails, p \in Passwords :
          ((~IsEmail(e) \/ Len(p) < 6) /\ Submit(e, p)) =>
              UNCHANGED <<loginCalls, submits, isLoading, runs, localStorage,
                          lastEvent, listenerView, socketConnected, timers>>
      ]_vars

\* an invalid submission was turned away while an admin session is stored
C6_Witness ==
    /\ formErrors # {}
    /\ loginCalls = 1
    /\ localStorage # {}

C8_ServerErrorVerbatim ==
    \A id \in RunIds :
        ( /\ runs[id].pc = "done"
          /\ runs[id].fault = "none"
          /\ ~runs[id].response.success
          /\ runs[id].response.error # Undefined ) =>
            /\ runs[id].message = runs[id].response.error
            /\ runs[id].trace = <<"toastFailed">>

\* C8 as amended: when AdminApi.login returns success=false with a non-empty
\* error string, the failure notification carries exactly that string and
\* nothing is stored, dispatched or called back.
C8_NonEmptyServerErrorVerbatim ==
    [][ \A id \in RunIds :
          ( /\ Resolved(id)
            /\ ~runs'[id].response.success
            /\ runs'[id].response.error \notin {Undefined, ""} ) =>
              /\ runs'[id].outcome = "failed"
              /\ runs'[id].message = runs'[id].response.error
              /\ runs'[id].trace = <<"toastFailed">>
              /\ UNCHANGED <<localStorage, lastEvent, listenerView,
                             socketConnected, timers>>
      ]_vars

\* a rejection was reported with the server's own words
C8_Witness ==
    \E id \in RunIds :
        /\ runs[id].pc = "done"
        /\ ~runs[id].response.success
        /\ runs[id].response.error = "invalid credentials"
        /\ runs[id].message = "invalid credentials"

\* C9: a failure of the reconnection step (loading the socket service,
\* isSocketConnected, disconnect) after the session was stored and the event
\* dispatched leaves the session in the store, reports no failure and still
\* calls onLoginSuccess.
C9_ReconnectFailureKeepsAdmission ==
    \A id \in RunIds :
        runs[id].fault \in {"importSocket", "isSocketConnected", "disconnect"} =>
            /\ <<TokenKey, runs[id].response.token>> \in localStorage
            /\ ~Has(runs[id].trace, "toastFailed")
            /\ Has(runs[id].trace, "onLoginSuccess")

\* C10: the store holds at most one token and one principal, and once a
\* submission has stored its session the store holds exactly that
\* submission's token and principal, whatever it held before.
C10_LastWriteWins ==
    /\ Cardinality(GetItems(localStorage, TokenKey)) <= 1
    /\ Cardinality(GetItems(localStorage, UserKey)) <= 1
    /\ \A id \in RunIds :
          (id = submits /\ Has(runs[id].trace, "setItem")) =>
              localStorage = { <<TokenKey, runs[id].response.token>>,
                               <<UserKey, JSONStringify(runs[id].adminUser)>> }

\* a second admission has stored its session over that of a first one
C10_Witness ==
    /\ submits = 2
    /\ Has(runs[2].trace, "setItem")
    /\ (1 \in timers \/ Has(runs[1].trace, "connect"))

\* the record line 78 selects, read off the response
Selected(r) == IF r.admin # Null THEN r.admin ELSE r.user

\* what the store holds when it holds exactly the session of the event
EventPairs(ev) ==
    { <<TokenKey, ev.token>>, <<UserKey, JSONStringify(ev.user)>> }

\* C11: the principal that is role-checked, stored and published is the
\* response's admin record when present and otherwise its user record, the
\* same record for all three steps: a non-admin admin record is denied even
\* beside an admin-role user record, an admin-role user record alone is
\* admitted.
C11_SelectedPrincipal ==
    \A id \in RunIds :
        LET r == runs[id].response
            sel == Selected(r)
        IN (r.success /\ r.hasData /\ r.token \notin {Undefined, ""} /\ sel # Null) =>
              /\ runs[id].adminUser = sel
              /\ sel.role # "admin" =>
                    (runs[id].outcome = "failed" /\ runs[id].message = AccessDeniedMsg)
              /\ sel.role = "admin" => runs[id].message # AccessDeniedMsg
              /\ (id = submits /\ Has(runs[id].trace, "dispatchEvent")) =>
                    /\ lastEvent = [user |-> sel, token |-> r.token]
                    /\ <<UserKey, JSONStringify(sel)>> \in localStorage

\* a response with a non-admin admin record and an admin-role user record
\* was denied
C11_Witness ==
    \E id \in RunIds :
        /\ runs[id].response.success
        /\ runs[id].response.token = "T1"
        /\ runs[id].response.admin = StdP
        /\ runs[id].response.user = AdminP2
        /\ runs[id].message = AccessDeniedMsg

\* C12: the submitted identifier and secret are never written to a log.
C12_CredentialsNeverLogged ==
    \A l \in console : \A e \in Emails : l.email # e

\* the descriptions the failure toast carries for a transport failure, a
\* rejection, a malformed response or a role denial
OtherFailureMessages ==
    { ErrorDescription(e) : e \in Rejections }
        \cup { RejectMessage(r) : r \in Responses }
        \cup { AccessDeniedMsg, MissingUserMsg }

\* C13: when a store write fails after the role gate admitted the principal,
\* onLoginSuccess is not called and the failure is reported with a
\* notification that no transport, rejection or authorization failure
\* produces.
C13_PersistFailureIsInternalError ==
    \A id \in RunIds :
        runs[id].fault \in {"setAdminToken", "setItem"} =>
            /\ runs[id].outcome = "failed"
            /\ ~Has(runs[id].trace, "onLoginSuccess")
            /\ runs[id].message \notin OtherFailureMessages

\* C14: an exception thrown by a listener of 'adminLoginSuccess' stops no
\* later listener and does not fail the submission: every listener is
\* called, the submission goes on to the reconnection, and unless a later
\* call throws it ends with onLoginSuccess and without a failure toast.
C14_ListenerExceptionIsolated ==
    \A id \in RunIds :
        Has(runs[id].trace, "dispatchEvent") =>
            /\ runs[id].delivered = Listeners
            /\ runs[id].fault # "dispatchEvent"
            /\ runs[id].pc \in {"awaitImportSocket", "done"}
            /\ (runs[id].pc = "done" /\ runs[id].fault = "none") =>
                  /\ runs[id].outcome = "succeeded"
                  /\ Has(runs[id].trace, "setTimeout")
                  /\ Has(runs[id].trace, "onLoginSuccess")
                  /\ ~Has(runs[id].trace, "toastFailed")

\* a submission one of whose listeners threw ended with onLoginSuccess
C14_Witness ==
    \E id \in RunIds :
        /\ runs[id].listenerThrew
        /\ runs[id].delivered = Listeners
        /\ runs[id].outcome = "succeeded"
        /\ Has(runs[id].trace, "onLoginSuccess")

\* C15: every AdminApi.login call belongs to one submission, and a
\* submission that has returned produced exactly one outcome: one failure
\* notification or one onLoginSuccess call, never both and never neither.
C15_ExactlyOneOutcome ==
    /\ loginCalls = submits
    /\ \A id \in RunIds :
          (runs[id].pc = "done" /\ runs[id].outcome # "none") =>
              Count(runs[id].trace, "toastFailed")
                  + Count(runs[id].trace, "onLoginSuccess") = 1

\* C16: once an admission has set the timer of the settling delay,
\* socketService.connect is eventually called for that admission, whatever
\* happens afterwards; it is called at most once, and a timer leaves the
\* pending set only by firing.
C16_TimerAlwaysConnects ==
    /\ \A id \in RunIds :
          Has(runs[id].trace, "setTimeout") ~> (Count(runs[id].trace, "connect") = 1)
    /\ [](\A id \in RunIds : Count(runs[id].trace, "connect") <= 1)
    /\ [][ \A id \in RunIds :
             (id \in timers /\ id \notin timers') =>
                 Count(runs'[id].trace, "connect") = Count(runs[id].trace, "connect") + 1
         ]_vars

\* the timer of a first admission fired after a further submission had begun
C16_Witness ==
    /\ submits = 2
    /\ runs[2].pc # "none"
    /\ 1 \notin timers
    /\ Count(runs[1].trace, "connect") = 1

\* C17: a submission that ends in failure (neither its two store writes nor
\* onLoginSuccess having thrown) leaves localStorage exactly as it found it.
C17_FailureLeavesStore ==
    \A id \in RunIds :
        ( /\ runs[id].outcome = "failed"
          /\ runs[id].fault \notin {"setAdminToken", "setItem", "onLoginSuccess"} ) =>
            ~runs[id].storeChanged

\* C18 as stated: the listeners of each event find exactly the token and
\* principal of that event in the store, and the store always holds either
\* nothing or the token and principal of one and the same response.
C18_StoreMatchesOneResponse ==
    /\ lastEvent # NoEvent => listenerView = EventPairs(lastEvent)
    /\ localStorage \in { {}, EventPairs(lastEvent) }

\* C18 as amended: the listeners of each event find exactly the token and
\* principal of that event in the store, and the store keeps exactly that
\* pair while the submission is the latest one; a submission whose principal
\* write threw leaves its token beside the principal of the last event, or
\* beside none.
C18_DispatchSeesOwnSession ==
    /\ lastEvent # NoEvent => listenerView = EventPairs(lastEvent)
    /\ \A id \in RunIds :
          /\ (id = submits /\ Has(runs[id].trace, "dispatchEvent")) =>
                /\ lastEvent = [user |-> runs[id].adminUser,
                                token |-> runs[id].response.token]
                /\ localStorage = EventPairs(lastEvent)
          /\ (id = submits /\ runs[id].fault = "setItem") =>
                /\ GetItems(localStorage, TokenKey) = {runs[id].response.token}
                /\ GetItems(localStorage, UserKey)
                      \subseteq {JSONStringify(lastEvent.user)}
                /\ lastEvent = NoEvent => GetItems(localStorage, UserKey) = {}

\* a second admission dispatched its event over the session of a first one
C18_Witness ==
    /\ submits = 2
    /\ Has(runs[2].trace, "dispatchEvent")
    /\ runs[2].storeChanged
    /\ Has(runs[1].trace, "connect")

\* C19: no socketService.connect is pending while a connection is active,
\* and no two are pending at once, so that no connect is called on a live
\* connection or beside another pending connect.
C19_ConnectOnlyWhenIdle ==
    /\ Cardinality(timers) <= 1
    /\ timers # {} => ~socketConnected

====
